---- MODULE Spec2Model ----
(***************************************************************************)
(* A model of sc2reader/objects.py: the domain objects of a parsed replay. *)
(* Python 2 byte strings are sequences of byte values (0..255), so that    *)
(* sorting, stripping, reversing and formatting act on the bytes as the    *)
(* interpreter does.  Objects are named by references; containers live in  *)
(* heaps so that aliasing between references is part of the state.         *)
(***************************************************************************)
EXTENDS Integers, Sequences, FiniteSets, TLC

VARIABLES
    player,     \* Player objects: the fields the profile URL and result read
    team,       \* Team objects: players list, result
    ret,        \* what the caller's last read of a property returned
    depot,      \* DepotFile objects, by reference
    attr,       \* the Attribute under construction: its instance __dict__
    attrCall,   \* the arguments of the last Attribute(...) call
    attrKey,    \* the lookup key Attribute.__init__ computed
    attrErr,    \* the exception the last Attribute(...) call raised
    lists,      \* list objects the score-screen decoder and a Graph hold
    graph,      \* the Graph object: the lists its times and values name
    gcall,      \* the arguments of the last Graph(...) call
    heap,       \* list and dict objects bound to class or instance attributes
    inst        \* instances: class, and the attributes bound on the instance

teamVars == <<player, team, ret>>
depotVars == <<depot>>
attrVars == <<attr, attrCall, attrKey, attrErr>>
graphVars == <<lists, graph, gcall>>
objVars == <<heap, inst>>

vars == <<teamVars, depotVars, attrVars, graphVars, objVars>>

\* Each operation acts on the objects of one class and on nothing else.
notTeam == <<depotVars, attrVars, graphVars, objVars>>
notDepot == <<teamVars, attrVars, graphVars, objVars>>
notAttr == <<teamVars, depotVars, graphVars, objVars>>
notGraph == <<teamVars, depotVars, attrVars, objVars>>
notObjects == <<teamVars, depotVars, attrVars, graphVars>>

None == "None"

(***************************************************************************)
(* Byte strings.                                                           *)
(***************************************************************************)

\* Python's str < str: bytewise lexicographic order, a proper prefix first.
LexLess(a, b) ==
    LET n == IF Len(a) < Len(b) THEN Len(a) ELSE Len(b)
        differ == {i \in 1..n : a[i] # b[i]}
    IN  IF differ = {} THEN Len(a) < Len(b)
        ELSE LET k == CHOOSE i \in differ : \A j \in differ : i <= j
             IN  a[k] < b[k]

\* str(n) of a non-negative int: its decimal digits.
RECURSIVE IntToStr(_)
IntToStr(n) ==
    IF n < 10 THEN <<48 + n>> ELSE IntToStr(n \div 10) \o <<48 + (n % 10)>>

\* template % args / template.format(*args): the template's literal pieces
\* (one more than the fields) with the arguments put between them, in order.
RECURSIVE Format(_, _)
Format(pieces, args) ==
    IF args = <<>> THEN Head(pieces)
    ELSE Head(pieces) \o Head(args) \o Format(Tail(pieces), Tail(args))

(***************************************************************************)
(* Byte-string operations of DepotFile and Attribute.                      *)
(***************************************************************************)

\* s[i:j], the bytes at the 0-based places i .. j-1 that exist.
Slice(s, i, j) ==
    LET hi == IF j < Len(s) THEN j ELSE Len(s)
    IN  IF i >= hi THEN <<>> ELSE SubSeq(s, i + 1, hi)

\* "\x00 "
PadChars == {0, 32}

RECURSIVE LStrip(_, _)
LStrip(s, chars) ==
    IF s # <<>> /\ Head(s) \in chars THEN LStrip(Tail(s), chars) ELSE s

RECURSIVE RStrip(_, _)
RStrip(s, chars) ==
    IF s # <<>> /\ s[Len(s)] \in chars
    THEN RStrip(SubSeq(s, 1, Len(s) - 1), chars) ELSE s

\* s.strip(chars) with its leading side left alone, as rstrip would do.
StripTrailingOnly(s, chars) == RStrip(s, chars)

\* s.strip(chars): the characters of chars dropped from both ends.
Strip(s, chars) == RStrip(LStrip(s, chars), chars)

\* s[::-1]
RECURSIVE Reverse(_)
Reverse(s) == IF s = <<>> THEN <<>> ELSE Reverse(Tail(s)) \o <<Head(s)>>

\* "0123456789abcdef"
HexDigits == <<48, 49, 50, 51, 52, 53, 54, 55, 56, 57, 97, 98, 99, 100, 101, 102>>

\* s.encode('hex'): two lowercase hex digits for each byte.
RECURSIVE HexEncode(_)
HexEncode(s) ==
    IF s = <<>> THEN <<>>
    ELSE <<HexDigits[(Head(s) \div 16) + 1], HexDigits[(Head(s) % 16) + 1]>>
         \o HexEncode(Tail(s))

\* s.decode('utf-8'): each byte below 128 is the code point of one character.
\* The server codes here are ASCII; a byte of 128 or more does not occur.
Utf8Decode(s) == [i \in 1..Len(s) |-> IF s[i] < 128 THEN s[i] ELSE 65533]

(***************************************************************************)
(* DepotFile.                                                              *)
(***************************************************************************)

DepotRefs == {"d1", "d2"}

\* 'http://{0}.depot.battle.net:1119/{1}.{2}'
url_template ==
    << <<104, 116, 116, 112, 58, 47, 47>>,
       <<46, 100, 101, 112, 111, 116, 46, 98, 97, 116, 116, 108, 101, 46, 110,
         101, 116, 58, 49, 49, 49, 57, 47>>,
       <<46>>, <<>> >>

\* Raw descriptors: type "s2ma" or "s2gs"; server "us" padded with nulls, with
\* spaces or on both sides, or "eu"; a content hash of four or five bytes.
DepotTypes == { <<115, 50, 109, 97>>, <<115, 50, 103, 115>> }
DepotServers ==
    { <<117, 115, 0, 0>>, <<117, 115, 32, 32>>, <<0, 117, 115, 0>>,
      <<101, 117, 0, 0>> }
DepotHashes ==
    { <<222, 173, 190, 239>>, <<0, 255, 16, 10>>, <<222, 173, 190, 239, 1>> }
DepotInputs ==
    {ty \o sv \o h : ty \in DepotTypes, sv \in DepotServers, h \in DepotHashes}

NoDepot == [live |-> FALSE, server |-> <<>>, hash |-> <<>>, type |-> <<>>]

\* DepotFile.__init__
DepotFileInit(bytes) ==
    [live |-> TRUE,
     server |-> Strip(Utf8Decode(Slice(bytes, 4, 8)), PadChars),
     hash |-> HexEncode(Slice(bytes, 8, Len(bytes))),
     type |-> Slice(bytes, 0, 4)]

\* DepotFile.url
DepotUrl(r) ==
    Format(url_template, <<depot[r].server, depot[r].hash, depot[r].type>>)

\* hash(s) of a string: a function of its characters.
PyHash(s) == [hash_of |-> s]

\* DepotFile.__hash__
DepotHash(r) == PyHash(DepotUrl(r))

\* a == b: DepotFile defines no __eq__ (and no __cmp__), so object's default
\* applies and two references are equal only when they are the same object.
DepotEq(r1, r2) == r1 = r2

InitDepot == depot = [r \in DepotRefs |-> NoDepot]

\* r = DepotFile(bytes)
NewDepotFile(r, bytes) ==
    /\ depot' = [depot EXCEPT ![r] = DepotFileInit(bytes)]
    /\ UNCHANGED notDepot

(***************************************************************************)
(* Attribute.                                                              *)
(***************************************************************************)

IntId(n) == [type |-> "int", v |-> n]
StrId(n) == [type |-> "str", v |-> n]

\* sc2reader.constants.LOBBY_PROPERTIES: id -> (name, value table).  Keys of
\* the value tables: "Humn", "Comp"; "Fast", "Norm"; "1v1", "2v2".
LOBBY_PROPERTIES ==
    (IntId(500) :>
        [name |-> "Player Type",
         lookup |-> (<<72, 117, 109, 110>> :> "Human")
                    @@ (<<67, 111, 109, 112>> :> "Computer")])
    @@ (IntId(3000) :>
        [name |-> "Game Speed",
         lookup |-> (<<70, 97, 115, 116>> :> "Fast")
                    @@ (<<78, 111, 114, 109>> :> "Normal")])
    @@ (IntId(2001) :>
        [name |-> "Teams1v1",
         lookup |-> (<<49, 118, 49>> :> "1v1") @@ (<<50, 118, 50>> :> "2v2")])

\* Ids passed to Attribute: the three registered ones, the unregistered int
\* 9999 and the unregistered string "500".
AttrIds == DOMAIN LOBBY_PROPERTIES \cup {IntId(9999), StrId(500)}

AttrPlayers == {"None", "player1", "player2"}

\* Raw values: "nmuH", "pmoC", "tsaF", "mroN", "nmuH\0", "\0nmuH", " nmuH ",
\* "1v1\0", "\0\0 1v2", "Humn", "", "\0\0\0\0", "n\0muH".
AttrValues ==
    { <<110, 109, 117, 72>>, <<112, 109, 111, 67>>, <<116, 115, 97, 70>>,
      <<109, 114, 111, 78>>, <<110, 109, 117, 72, 0>>, <<0, 110, 109, 117, 72>>,
      <<32, 110, 109, 117, 72, 32>>, <<49, 118, 49, 0>>, <<0, 0, 32, 49, 118, 50>>,
      <<72, 117, 109, 110>>, <<>>, <<0, 0, 0, 0>>, <<110, 0, 109, 117, 72>> }

\* d.get(k): the entry, or None without an error when there is none.
DictGet(d, k) ==
    IF k \in DOMAIN d THEN [err |-> "none", val |-> d[k]]
    ELSE [err |-> "none", val |-> "None"]

\* d[k]: the entry, or KeyError when there is none.
DictGetItem(d, k) ==
    IF k \in DOMAIN d THEN [err |-> "none", val |-> d[k]]
    ELSE [err |-> "KeyError", val |-> "None"]

\* "Unknown attribute id: " + self.id: str + str is a str, and str + int
\* raises TypeError before the ValueError is built.
UnknownIdError(attr_id) ==
    IF attr_id.type = "str" THEN "ValueError" ELSE "TypeError"

NoFields == [f \in {} |-> "None"]

\* value.strip("\x00 ")[::-1]
AttrKeyOf(value) == Reverse(Strip(value, PadChars))

\* Attribute.__init__: the instance __dict__, the key and the exception when
\* the constructor returns or raises.
AttributeInit(header, attr_id, plr, value) ==
    LET d1 == ("header" :> header) @@ ("id" :> attr_id) @@ ("player" :> plr)
    IN  IF attr_id \notin DOMAIN LOBBY_PROPERTIES
        THEN [fields |-> d1, key |-> <<>>, err |-> UnknownIdError(attr_id)]
        ELSE LET entry == LOBBY_PROPERTIES[attr_id]
                 d2 == d1 @@ ("name" :> entry.name)
                 key == AttrKeyOf(value)
                 got == DictGetItem(entry.lookup, key)
             IN  IF got.err # "none"
                 THEN [fields |-> d2, key |-> key, err |-> got.err]
                 ELSE [fields |-> d2 @@ ("value" :> got.val), key |-> key,
                       err |-> "none"]

NoCall == [made |-> FALSE, id |-> IntId(0), player |-> "None", value |-> <<>>]

InitAttr ==
    /\ attr = NoFields
    /\ attrCall = NoCall
    /\ attrKey = <<>>
    /\ attrErr = "none"

\* a = Attribute(header, attr_id, player, value)
NewAttribute(header, attr_id, plr, value) ==
    LET out == AttributeInit(header, attr_id, plr, value)
    IN  /\ attr' = out.fields
        /\ attrKey' = out.key
        /\ attrErr' = out.err
        /\ attrCall' = [made |-> TRUE, id |-> attr_id, player |-> plr,
                        value |-> value]
        /\ UNCHANGED notAttr

(***************************************************************************)
(* Graph.                                                                  *)
(***************************************************************************)

\* The list objects the caller holds and passes as x and y, the list of pairs
\* it passes as xy_list, and the two lists Graph.__init__ creates.
CallerLists == {"a", "b"}
FreshTimes == "times0"
FreshValues == "values0"
ListRefs == CallerLists \cup {"pairs", FreshTimes, FreshValues}

\* The most entries a list of the caller holds.
MaxPoints == 2

Samples == {0, 1}
PairValues == {<<0, 10>>, <<1, 11>>}

\* `if xy_list is not None`: an empty list of pairs counts as given.
ListIsNotNone(ref) == ref # None

\* if xy_list: None is false, and so is a list with no entries.
ListTruthy(ref) == ref # None /\ lists[ref] # <<>>

\* zip(a, b): pairs up to the end of the shorter list (a list, in Python 2).
RECURSIVE Zip(_, _)
Zip(a, b) ==
    IF a = <<>> \/ b = <<>> THEN <<>>
    ELSE <<(<<Head(a), Head(b)>>)>> \o Zip(Tail(a), Tail(b))

\* Graph.as_points
AsPoints == Zip(lists[graph.times], lists[graph.values])

NoGraph == [live |-> FALSE, times |-> FreshTimes, values |-> FreshValues]

NoGraphCall == [x |-> "a", y |-> "a", xy |-> None, n |-> 0]

InitGraph ==
    /\ lists = [r \in ListRefs |-> <<>>]
    /\ graph = NoGraph
    /\ gcall = NoGraphCall

\* r.append(v), by the caller
CallerAppend(r, v) ==
    /\ Len(lists[r]) < MaxPoints
    /\ lists' = [lists EXCEPT ![r] = Append(@, v)]
    /\ UNCHANGED <<graph, gcall>>
    /\ UNCHANGED notGraph

\* r.pop(), by the caller
CallerPop(r) ==
    /\ lists[r] # <<>>
    /\ lists' = [lists EXCEPT ![r] = SubSeq(@, 1, Len(@) - 1)]
    /\ UNCHANGED <<graph, gcall>>
    /\ UNCHANGED notGraph

\* g = Graph(x, y, xy_list): two new lists are bound first; with pairs they are
\* filled, without pairs times and values are rebound to x and y themselves.
NewGraph(x, y, xy) ==
    /\ gcall' = [x |-> x, y |-> y, xy |-> xy,
                 n |-> IF xy = None THEN 0 ELSE Len(lists[xy])]
    /\ IF ListTruthy(xy)
       THEN /\ lists' = [lists EXCEPT
                  ![FreshTimes] = [i \in 1..Len(lists[xy]) |-> lists[xy][i][1]],
                  ![FreshValues] = [i \in 1..Len(lists[xy]) |-> lists[xy][i][2]]]
            /\ graph' = [live |-> TRUE, times |-> FreshTimes,
                         values |-> FreshValues]
       ELSE /\ lists' = [lists EXCEPT ![FreshTimes] = <<>>, ![FreshValues] = <<>>]
            /\ graph' = [live |-> TRUE, times |-> x, values |-> y]
    /\ UNCHANGED notGraph

(***************************************************************************)
(* Class-level and instance-level containers.                              *)
(***************************************************************************)

InstRefs == {"o1", "o2"}
Classes == {"Observer", "Player", "Team", "PlayerSummary"}
StatKeys == {"k1", "k2"}

\* The most entries a list attribute holds.
MaxEntries == 2

\* The class in whose body an attribute's class-level default is bound.
DefiningClass(cls) == IF cls \in {"Observer", "Player"} THEN "Person" ELSE cls

\* The container attributes a class body binds: Person.messages and events,
\* Team.players, PlayerSummary.unknown2 and stats.
ClassAttrs(cls) ==
    CASE DefiningClass(cls) = "Person" -> {"messages", "events"}
      [] cls = "Team" -> {"players"}
      [] cls = "PlayerSummary" -> {"unknown2", "stats"}
      [] OTHER -> {}

\* The container attributes __init__ binds on the new instance:
\* Person.__init__ messages and events, Team.__init__ players,
\* PlayerSummary.__init__ unknown2 only.
InitAttrs(cls) ==
    CASE DefiningClass(cls) = "Person" -> {"messages", "events"}
      [] cls = "Team" -> {"players"}
      [] cls = "PlayerSummary" -> {"unknown2"}
      [] OTHER -> {}

AllAttrs == {"messages", "events", "players", "unknown2", "stats"}
DictAttrs == {"unknown2", "stats"}

Cells ==
    {<<o, a>> : o \in InstRefs \cup {"Person", "Team", "PlayerSummary"},
                a \in AllAttrs}

\* list() / dict()
Empty(a) == IF a \in DictAttrs THEN {} ELSE <<>>

\* obj.attr: the instance's own binding, else the class's.
Lookup(i, a) ==
    IF a \in inst[i].own THEN <<i, a>> ELSE <<DefiningClass(inst[i].cls), a>>

InitObjects ==
    /\ heap = [c \in Cells |-> Empty(c[2])]
    /\ inst = [i \in InstRefs |-> [cls |-> "none", own |-> {}]]

\* i = cls(...)
Construct(i, cls) ==
    /\ inst[i].cls = "none"
    /\ inst' = [inst EXCEPT ![i] = [cls |-> cls, own |-> InitAttrs(cls)]]
    /\ heap' = [c \in Cells |->
                  IF c[1] = i /\ c[2] \in InitAttrs(cls) THEN Empty(c[2])
                  ELSE heap[c]]
    /\ UNCHANGED notObjects

\* i.attr.append(entry): the entry names the instance it was added through.
AddListEntry(i, a) ==
    /\ inst[i].cls # "none"
    /\ a \in ClassAttrs(inst[i].cls) \ DictAttrs
    /\ Len(heap[Lookup(i, a)]) < MaxEntries
    /\ heap' = [heap EXCEPT ![Lookup(i, a)] = Append(@, i)]
    /\ UNCHANGED inst
    /\ UNCHANGED notObjects

\* i.attr[k] = entry: the entry names the instance it was set through.
SetDictEntry(i, a, k) ==
    /\ inst[i].cls # "none"
    /\ a \in ClassAttrs(inst[i].cls) \cap DictAttrs
    /\ heap' = [heap EXCEPT ![Lookup(i, a)] =
                  {e \in @ : e[1] # k} \cup {<<k, i>>}]
    /\ heap' # heap
    /\ UNCHANGED inst
    /\ UNCHANGED notObjects

(***************************************************************************)
(* Player and Team.                                                        *)
(***************************************************************************)

Players == {1, 2, 3}
Teams == {"team1", "team2"}
Results == {"Win", "Loss", "Unknown"}

\* The most members the two teams hold together.
MaxMembers == 4

\* "http://%s.battle.net/sc2/en/profile/%s/%s/%s/"
URL_TEMPLATE ==
    << <<104, 116, 116, 112, 58, 47, 47>>,
       <<46, 98, 97, 116, 116, 108, 101, 46, 110, 101, 116, 47, 115, 99, 50,
         47, 101, 110, 47, 112, 114, 111, 102, 105, 108, 101, 47>>,
       <<47>>, <<47>>, <<47>> >>

\* Names the decoder may give a player: "A", "B", and a name holding a comma,
\* "A/,http://us.battle.net/sc2/en/profile/1/1/B".
Names ==
    { <<65>>, <<66>>,
      <<65, 47, 44, 104, 116, 116, 112, 58, 47, 47, 117, 115, 46, 98, 97, 116,
        116, 108, 101, 46, 110, 101, 116, 47, 115, 99, 50, 47, 101, 110, 47,
        112, 114, 111, 102, 105, 108, 101, 47, 49, 47, 49, 47, 66>> }

\* Battle.net account data (gateway, subregion, uid): "us"/1/1 and "eu"/2/12.
BnetIds ==
    { [gateway |-> <<117, 115>>, subregion |-> 1, uid |-> 1],
      [gateway |-> <<101, 117>>, subregion |-> 2, uid |-> 12] }

\* Player.url
Url(p) ==
    Format(URL_TEMPLATE,
           << player[p].gateway, IntToStr(player[p].uid),
              IntToStr(player[p].subregion), player[p].name >>)

\* sorted(iterable) on byte strings: the insertion of each element in order.
RECURSIVE InsertSorted(_, _)
InsertSorted(x, s) ==
    IF s = <<>> THEN <<x>>
    ELSE IF LexLess(x, Head(s)) THEN <<x>> \o s
    ELSE <<Head(s)>> \o InsertSorted(x, Tail(s))

RECURSIVE Sorted(_)
Sorted(s) ==
    IF s = <<>> THEN <<>> ELSE InsertSorted(Head(s), Sorted(Tail(s)))

\* sep.join(strings)
RECURSIVE Join(_, _)
Join(sep, strs) ==
    IF strs = <<>> THEN <<>>
    ELSE IF Len(strs) = 1 THEN Head(strs)
    ELSE Head(strs) \o sep \o Join(sep, Tail(strs))

\* hashlib.sha256(s).hexdigest(): the digest is taken as injective on strings.
Sha256Hex(s) == [alg |-> "sha256", of |-> s]

\* The URLs read through one list that every team shares, as they would be if
\* Team.__init__ left the class-level players list in place.
ClassLevelPlayerUrls(t) ==
    [i \in 1..Len(team["team1"].players) |-> Url(team["team1"].players[i])]

\* (p.url for p in self.players)
PlayerUrls(t) == [i \in 1..Len(team[t].players) |-> Url(team[t].players[i])]

\* The URLs joined in membership order, the sort left out.
UnsortedUrls(t) == PlayerUrls(t)

RECURSIVE SetToSorted(_)
SetToSorted(S) ==
    IF S = {} THEN <<>>
    ELSE LET x == CHOOSE y \in S : TRUE
         IN  InsertSorted(x, SetToSorted(S \ {x}))

\* sorted(set(...)): the URLs with repetitions dropped before the sort.
DedupSortedUrls(t) ==
    SetToSorted({PlayerUrls(t)[i] : i \in 1..Len(team[t].players)})

\* sorted(p.url for p in self.players)
SortedUrls(t) == Sorted(PlayerUrls(t))

\* Team.hash
TeamHash(t) == Sha256Hex(Join(<<44>>, SortedUrls(t)))

\* Truth of a Team that defined __len__ over its players: false when empty.
TruthyByLen(ref) == ref # None /\ Len(team[ref].players) > 0

\* if self.team: a Team defines neither __nonzero__ nor __len__, so every Team
\* object is true and only None is false.
Truthy(ref) == ref # None

\* Player.result
PlayerResult(p) ==
    IF Truthy(player[p].team) THEN team[player[p].team].result ELSE "Unknown"

Members == Len(team["team1"].players) + Len(team["team2"].players)

\* list.remove(x): drops the first occurrence of x.
RECURSIVE ListRemove(_, _)
ListRemove(s, x) ==
    IF s = <<>> THEN <<>>
    ELSE IF Head(s) = x THEN Tail(s)
    ELSE <<Head(s)>> \o ListRemove(Tail(s), x)

InList(s, x) == \E i \in 1..Len(s) : s[i] = x

\* Person.__init__ / Player.__init__, then the decoder's first assignments.
NewPlayer(name) ==
    [name |-> name, gateway |-> <<117, 115>>, subregion |-> 1, uid |-> 1,
     team |-> None]

\* Team.__init__
NewTeam(number) ==
    [number |-> number, players |-> <<>>, result |-> "Unknown", lineup |-> ""]

\* What the caller's last operation returned: nothing after an assignment or a
\* list operation, the value read after a read of a property.
NoRet == [op |-> "none", on |-> None, val |-> None]

InitTeam ==
    /\ player = [p \in Players |-> NewPlayer(IF p = 2 THEN <<66>> ELSE <<65>>)]
    /\ team = [t \in Teams |-> NewTeam(IF t = "team1" THEN 1 ELSE 2)]
    /\ ret = NoRet

\* team.players.append(p)
AppendPlayer(t, p) ==
    /\ Members < MaxMembers
    /\ team' = [team EXCEPT ![t].players = Append(@, p)]
    /\ ret' = NoRet
    /\ UNCHANGED player
    /\ UNCHANGED notTeam

\* team.players.remove(p)
RemovePlayer(t, p) ==
    /\ InList(team[t].players, p)
    /\ team' = [team EXCEPT ![t].players = ListRemove(@, p)]
    /\ ret' = NoRet
    /\ UNCHANGED player
    /\ UNCHANGED notTeam

\* player.name = n
SetName(p, n) ==
    /\ player[p].name # n
    /\ player' = [player EXCEPT ![p].name = n]
    /\ ret' = NoRet
    /\ UNCHANGED team
    /\ UNCHANGED notTeam

\* player.gateway, player.subregion, player.uid = b
SetBnet(p, b) ==
    /\ player' = [player EXCEPT ![p].gateway = b.gateway,
                                ![p].subregion = b.subregion,
                                ![p].uid = b.uid]
    /\ player' # player
    /\ ret' = NoRet
    /\ UNCHANGED team
    /\ UNCHANGED notTeam

\* player.team = t
AssignTeam(p, t) ==
    /\ player[p].team # t
    /\ player' = [player EXCEPT ![p].team = t]
    /\ ret' = NoRet
    /\ UNCHANGED team
    /\ UNCHANGED notTeam

\* team.result = r
SetResult(t, r) ==
    /\ team[t].result # r
    /\ team' = [team EXCEPT ![t].result = r]
    /\ ret' = NoRet
    /\ UNCHANGED player
    /\ UNCHANGED notTeam

\* h = team.hash
ReadHash(t) ==
    /\ ret' = [op |-> "hash", on |-> t, val |-> TeamHash(t)]
    /\ UNCHANGED <<player, team>>
    /\ UNCHANGED notTeam

\* r = player.result
ReadResult(p) ==
    /\ ret' = [op |-> "result", on |-> p, val |-> PlayerResult(p)]
    /\ UNCHANGED <<player, team>>
    /\ UNCHANGED notTeam

Init == InitTeam /\ InitDepot /\ InitAttr /\ InitGraph /\ InitObjects

NextTeam ==
    \/ \E t \in Teams, p \in Players : AppendPlayer(t, p)
    \/ \E t \in Teams, p \in Players : RemovePlayer(t, p)
    \/ \E p \in Players, n \in Names : SetName(p, n)
    \/ \E p \in Players, b \in BnetIds : SetBnet(p, b)

\* One team filled and emptied by the decoder, its hash and the hash of a team
\* that stays empty read in between.
NextHash ==
    \/ \E p \in Players : AppendPlayer("team1", p)
    \/ \E p \in Players : RemovePlayer("team1", p)
    \/ \E p \in Players, n \in Names : SetName(p, n)
    \/ \E p \in Players, b \in BnetIds : SetBnet(p, b)
    \/ \E t \in Teams : ReadHash(t)

\* Players assigned to either team and results set on either, while one team's
\* list is filled and emptied and the other's stays empty.
NextResult ==
    \/ \E p \in Players : AppendPlayer("team1", p)
    \/ \E p \in Players : RemovePlayer("team1", p)
    \/ \E p \in Players, t \in Teams \cup {None} : AssignTeam(p, t)
    \/ \E t \in Teams, r \in Results : SetResult(t, r)
    \/ \E p \in Players : ReadResult(p)

NextDepot ==
    \E r \in DepotRefs, b \in DepotInputs : NewDepotFile(r, b)

NextAttr ==
    \E i \in AttrIds, pl \in AttrPlayers, v \in AttrValues :
       NewAttribute("replay", i, pl, v)

SpecTeam == Init /\ [][NextTeam]_vars

SpecHash == Init /\ [][NextHash]_vars

SpecResult == Init /\ [][NextResult]_vars

SpecDepot == Init /\ [][NextDepot]_vars

SpecAttr == Init /\ [][NextAttr]_vars

NextGraph ==
    \/ \E r \in CallerLists, v \in Samples : CallerAppend(r, v)
    \/ \E v \in PairValues : CallerAppend("pairs", v)
    \/ \E r \in CallerLists \cup {"pairs"} : CallerPop(r)
    \/ \E x, y \in CallerLists, xy \in {None, "pairs"} : NewGraph(x, y, xy)

SpecGraph == Init /\ [][NextGraph]_vars

NextObjects ==
    \/ \E i \in InstRefs, c \in Classes : Construct(i, c)
    \/ \E i \in InstRefs, a \in AllAttrs : AddListEntry(i, a)
    \/ \E i \in InstRefs, a \in AllAttrs, k \in StatKeys : SetDictEntry(i, a, k)

SpecObjects == Init /\ [][NextObjects]_vars

(***************************************************************************)
(* Properties of Team.hash and Player.result.                              *)
(***************************************************************************)

Count(s, x) == Cardinality({i \in 1..Len(s) : s[i] = x})

\* The URLs of a team's current members, read off the state directly.
MemberUrl(t, i) == Url(team[t].players[i])
UrlSet(t) == {MemberUrl(t, i) : i \in 1..Len(team[t].players)}
UrlCount(t, u) ==
    Cardinality({i \in 1..Len(team[t].players) : MemberUrl(t, i) = u})
SameUrlBag(t1, t2) ==
    \A u \in UrlSet(t1) \cup UrlSet(t2) : UrlCount(t1, u) = UrlCount(t2, u)

HasComma(u) == \E i \in 1..Len(u) : u[i] = 44
CommaFree(t) == \A u \in UrlSet(t) : ~HasComma(u)

\* The place of member i among the team's URLs in ascending order: after
\* every smaller URL and after the equal URLs of earlier members.
Rank(t, i) ==
    1 + Cardinality({j \in 1..Len(team[t].players) :
                        \/ LexLess(MemberUrl(t, j), MemberUrl(t, i))
                        \/ (j < i /\ MemberUrl(t, j) = MemberUrl(t, i))})

\* The member URLs by rank, with a comma before each but the first.
RECURSIVE JoinedByRank(_, _)
JoinedByRank(t, n) ==
    IF n = 0 THEN <<>>
    ELSE LET u == MemberUrl(t, CHOOSE i \in 1..Len(team[t].players) : Rank(t, i) = n)
         IN  IF n = 1 THEN u ELSE JoinedByRank(t, n - 1) \o <<44>> \o u

ExpectedRaw(t) == JoinedByRank(t, Len(team[t].players))

\* C1: two teams whose players lists are permutations of each other (each
\* player as often in one as in the other) have equal hash, whatever the order
\* in which the players were appended.
C1_OrderIndependent ==
    (\A p \in Players :
        Count(team["team1"].players, p) = Count(team["team2"].players, p))
        => TeamHash("team1") = TeamHash("team2")

\* Two teams hold the same players, with different URLs, in different orders.
C1_Witness ==
    /\ Len(team["team1"].players) >= 2
    /\ team["team1"].players # team["team2"].players
    /\ \A p \in Players :
          Count(team["team1"].players, p) = Count(team["team2"].players, p)
    /\ Cardinality(UrlSet("team1")) >= 2

\* C2: every read of Team.hash returns the digest of the comma-joined,
\* ascending URLs of the players in the list at the moment of the read, after
\* any appends, removals and changes of url fields; with no players it is the
\* digest of the empty string.
C2_HashIsCurrent ==
    ret.op = "hash" =>
        /\ ret.val = [alg |-> "sha256", of |-> ExpectedRaw(ret.on)]
        /\ (team[ret.on].players = <<>> => ret.val.of = <<>>)

\* A hash is read from a team whose three members are not in URL order.
C2_Witness ==
    /\ ret.op = "hash"
    /\ Len(team[ret.on].players) = 3
    /\ LexLess(MemberUrl(ret.on, 2), MemberUrl(ret.on, 1))
    /\ LexLess(MemberUrl(ret.on, 3), MemberUrl(ret.on, 2))

\* C3 as stated: two teams have the same hash if and only if they have the
\* same set of member URLs.
C3_SetIff ==
    (TeamHash("team1") = TeamHash("team2")) <=> (UrlSet("team1") = UrlSet("team2"))

\* C3 amended: two teams with the same multiset of member URLs have the same
\* hash, and two teams with the same hash whose URLs hold no comma have the
\* same multiset of member URLs.
C3_BagIff ==
    LET same == TeamHash("team1") = TeamHash("team2")
    IN  /\ SameUrlBag("team1", "team2") => same
        /\ (CommaFree("team1") /\ CommaFree("team2") /\ same)
              => SameUrlBag("team1", "team2")

\* Two teams with the same set of comma-free URLs, one of them repeated in one
\* team, have different hashes.
C3_Witness ==
    /\ UrlSet("team1") = UrlSet("team2")
    /\ ~SameUrlBag("team1", "team2")
    /\ CommaFree("team1")
    /\ TeamHash("team1") # TeamHash("team2")

\* C9: every read of Player.result returns the current result of the team the
\* player is assigned to, and "Unknown" when the player has no team.
C9_ResultFollowsTeam ==
    ret.op = "result" =>
        ret.val = IF player[ret.on].team = None THEN "Unknown"
                  ELSE team[player[ret.on].team].result

\* The result read is that of an assigned team that won and has no players.
C9_Witness ==
    /\ ret.op = "result"
    /\ player[ret.on].team # None
    /\ team[player[ret.on].team].players = <<>>
    /\ team[player[ret.on].team].result = "Win"
    /\ ret.val = "Win"

(***************************************************************************)
(* Properties of DepotFile and Attribute.                                  *)
(***************************************************************************)

\* C4: two DepotFile instances whose url strings are equal compare equal (==)
\* and have equal hash values, whether or not they are the same object.
C4_EqualByUrl ==
    \A r1, r2 \in DepotRefs :
        (depot[r1].live /\ depot[r2].live /\ DepotUrl(r1) = DepotUrl(r2))
            => (DepotEq(r1, r2) /\ DepotHash(r1) = DepotHash(r2))

IdRegistered == attrCall.id \in DOMAIN LOBBY_PROPERTIES

\* C5: an Attribute(...) call with an id that is no key of the registry raises
\* the unknown-id error (the ValueError "Unknown attribute id"), whatever the
\* id's type, and has then assigned none of the object's fields.
C5_UnknownIdLeavesNothing ==
    (attrCall.made /\ ~IdRegistered)
        => (attrErr = "ValueError" /\ DOMAIN attr = {})

\* The places of a raw value's bytes that are neither null nor space.
Solid(raw) == {i \in 1..Len(raw) : raw[i] \notin {0, 32}}
FirstSolid(raw) == CHOOSE i \in Solid(raw) : \A j \in Solid(raw) : i <= j
LastSolid(raw) == CHOOSE i \in Solid(raw) : \A j \in Solid(raw) : j <= i

\* The raw value from its first byte to its last solid byte, backwards.
TrailingStrippedReversed(raw) ==
    IF Solid(raw) = {} THEN <<>>
    ELSE [k \in 1..LastSolid(raw) |-> raw[LastSolid(raw) - k + 1]]

\* The raw value from its first solid byte to its last, backwards.
BothStrippedReversed(raw) ==
    IF Solid(raw) = {} THEN <<>>
    ELSE [k \in 1..(LastSolid(raw) - FirstSolid(raw) + 1) |->
            raw[LastSolid(raw) - k + 1]]

\* C6 as stated: for a registered id the lookup key is the raw value with only
\* its trailing nulls and spaces removed, reversed (leading ones are kept), and
\* value is the table's entry at that key.
C6_TrailingOnly ==
    (attrCall.made /\ IdRegistered) =>
        /\ attrKey = TrailingStrippedReversed(attrCall.value)
        /\ (attrErr = "none" =>
              attr["value"] = LOBBY_PROPERTIES[attrCall.id].lookup[attrKey])

\* C6 amended: for a registered id the lookup key is the raw value with its
\* leading and its trailing nulls and spaces removed, reversed (inner ones are
\* kept); name is the id's name and value the table's entry at that key.
C6_BothEnds ==
    (attrCall.made /\ IdRegistered) =>
        /\ attrKey = BothStrippedReversed(attrCall.value)
        /\ (attrErr = "none" =>
              /\ attr["name"] = LOBBY_PROPERTIES[attrCall.id].name
              /\ attr["value"] =
                   LOBBY_PROPERTIES[attrCall.id].lookup[
                       BothStrippedReversed(attrCall.value)])

\* " nmuH " is decoded for "Player Type": padded on both sides, key "Humn".
C6_Witness ==
    /\ attrCall.made
    /\ attrCall.id = IntId(500)
    /\ attrCall.value = <<32, 110, 109, 117, 72, 32>>
    /\ attrErr = "none"
    /\ attrKey = <<72, 117, 109, 110>>
    /\ attr["value"] = "Human"

\* C7: an Attribute(...) call with a registered id whose key is not in the
\* id's value table raises, in the constructor (no value is assigned), the
\* unknown-value error (KeyError), which no unregistered id raises.
C7_UnknownValueRaises ==
    attrCall.made =>
        /\ (IdRegistered
              /\ BothStrippedReversed(attrCall.value)
                   \notin DOMAIN LOBBY_PROPERTIES[attrCall.id].lookup)
             => (attrErr = "KeyError" /\ "value" \notin DOMAIN attr)
        /\ ~IdRegistered => attrErr \notin {"KeyError", "none"}

\* "Humn" (not reversed) for "Player Type": the key "nmuH" is in no table.
C7_Witness ==
    /\ attrCall.made
    /\ attrCall.id = IntId(500)
    /\ attrCall.value = <<72, 117, 109, 110>>
    /\ attrKey = <<110, 109, 117, 72>>
    /\ attrErr = "KeyError"
    /\ DOMAIN attr = {"header", "id", "player", "name"}

(***************************************************************************)
(* Properties of Graph and of the instances' containers.                   *)
(***************************************************************************)

Smaller(m, n) == IF m < n THEN m ELSE n

\* C8 as stated: every Graph has len(times) == len(values), whatever it was
\* built from and whatever the caller did since to the sequences it passed,
\* and as_points() has len(times) points.
C8_SameLength ==
    graph.live =>
        /\ Len(lists[graph.times]) = Len(lists[graph.values])
        /\ Len(AsPoints) = Len(lists[graph.times])

\* C8 amended: as_points() has as many points as the shorter of times and
\* values; a Graph built from a non-empty list of pairs has len(times) ==
\* len(values) == the number of pairs given, whatever the caller does later
\* to x, y and the pairs list; a Graph built with no pairs (None or an empty
\* list) has the caller's x and y themselves as times and values.
C8_PairsOrAliases ==
    graph.live =>
        /\ Len(AsPoints) =
             Smaller(Len(lists[graph.times]), Len(lists[graph.values]))
        /\ gcall.n > 0 =>
             /\ Len(lists[graph.times]) = gcall.n
             /\ Len(lists[graph.values]) = gcall.n
        /\ gcall.n = 0 =>
             /\ lists[graph.times] = lists[gcall.x]
             /\ lists[graph.values] = lists[gcall.y]

\* A Graph built from two pairs, after which x, y and the pairs list changed;
\* it still has two times and two values.
C8_Witness ==
    /\ graph.live
    /\ gcall.n = 2
    /\ Len(lists[gcall.x]) = 1
    /\ gcall.y # gcall.x
    /\ lists[gcall.y] = <<>>
    /\ lists["pairs"] = <<>>
    /\ Len(AsPoints) = 2

Live(i) == inst[i].cls # "none"

\* The instances named by the entries of a container.
Adders(a, c) ==
    IF a \in DictAttrs THEN {e[2] : e \in c} ELSE {c[k] : k \in 1..Len(c)}

\* C10: every instance owns its containers: whatever is in an instance's
\* events, messages, players, unknown2 or stats was added through that
\* instance, never through another one.
C10_OwnContainers ==
    \A i \in InstRefs :
        Live(i) => \A a \in ClassAttrs(inst[i].cls) :
                      Adders(a, heap[Lookup(i, a)]) \subseteq {i}

====
